---- MODULE Spec2Model ----
(***************************************************************************)
(* Model of lab_5_scraper/scraper.py: Config validation, Crawler           *)
(* (find_articles, _extract_url), HTMLParser.parse and the driver main().  *)
(* Python strings are TLA+ strings; lists are sequences.                   *)
(***************************************************************************)
EXTENDS Integers, Sequences, FiniteSets, TLC

VARIABLES
    seed_urls,       \* Config._seed_urls (validated): list of seed URLs
    num_articles,    \* Config._num_articles (validated)
    pc,              \* position of the control flow in main()
    urls,            \* Crawler.urls
    seed_index,      \* position of `for seed_url in ...` (1-based)
    query_index,     \* position of `for i in ...` (1-based)
    soup,            \* find_articles: soup, the parsed seed document
    url_attempts,    \* find_articles: url_attempts
    link,            \* find_articles: link, result of the last _extract_url
    requests,        \* history: number of requests.get calls issued so far
    total_attempts,  \* history: extraction attempts summed over the whole run
    contributed,     \* history: URLs appended while the current soup is in use
    index,           \* main: index of enumerate(crawler.urls) (0-based)
    article,         \* HTMLParser.article / article_info
    response,        \* the response object of the last article request
    log,             \* history: extractor and persistence calls, in call order
    raw,             \* the Config fields before validation
    outcome          \* result of Config.__init__: "pending", "ok" or the fault raised

vars == <<seed_urls, num_articles, pc, urls, seed_index, query_index, soup,
          url_attempts, link, requests, total_attempts, contributed, index,
          article, response, log, raw, outcome>>

crawlVars == <<urls, seed_index, query_index, soup, url_attempts, link,
               requests, total_attempts, contributed>>
driveVars == <<index, article, response, log>>
configVars == <<raw, outcome>>

----------------------------------------------------------------------------
(* Bounds of the model *)

MaxSeeds == 2
MaxArticles == 2

----------------------------------------------------------------------------
(* Strings *)

startswith(s, prefix) ==
    Len(s) >= Len(prefix) /\ SubSeq(s, 1, Len(prefix)) = prefix

Range(seq) == {seq[k] : k \in 1..Len(seq)}

Min(a, b) == IF a <= b THEN a ELSE b

IsPrefix(s, t) == Len(s) <= Len(t) /\ SubSeq(t, 1, Len(s)) = s

\* str.strip() on the one text node of an element (get_text(strip=True))
RECURSIVE lstrip(_)
lstrip(s) ==
    IF Len(s) > 0 /\ SubSeq(s, 1, 1) = " " THEN lstrip(SubSeq(s, 2, Len(s))) ELSE s

RECURSIVE rstrip(_)
rstrip(s) ==
    IF Len(s) > 0 /\ SubSeq(s, Len(s), Len(s)) = " "
    THEN rstrip(SubSeq(s, 1, Len(s) - 1)) ELSE s

strip(s) == rstrip(lstrip(s))

\* "\n".join(texts)
RECURSIVE join(_)
join(texts) ==
    IF texts = <<>> THEN ""
    ELSE IF Len(texts) = 1 THEN texts[1]
    ELSE texts[1] \o "\n" \o join(Tail(texts))

----------------------------------------------------------------------------
(* Documents and responses *)

\* an <a> element: whether it carries href, and its value
Anchor(h) == [has_href |-> TRUE, href |-> h]
BareAnchor == [has_href |-> FALSE, href |-> ""]

\* a parsed document: its <a> elements, <title>, <itemprop class=author>
\* and the texts of its <div> elements, in document order
Doc(anchors, has_title, title, has_author, author, divs) ==
    [anchors |-> anchors, has_title |-> has_title, title |-> title,
     has_author |-> has_author, author |-> author, divs |-> divs]

EmptyDoc == Doc(<<>>, FALSE, "", FALSE, "", <<>>)

SeedPage(anchors) == Doc(anchors, TRUE, "index", FALSE, "", <<>>)

SeedDocs ==
    { SeedPage(<<>>),
      SeedPage(<<BareAnchor, Anchor("/a")>>),
      SeedPage(<<Anchor("/a"), Anchor("/b")>>),
      SeedPage(<<Anchor("/b")>>),
      SeedPage(<<Anchor("news/c")>>),
      SeedPage(<<Anchor("https://otr-online.ru/a")>>),
      SeedPage(<<Anchor("http://t.me/d")>>) }

ArticleDocs ==
    { Doc(<<>>, t, IF t THEN "T" ELSE "", a[1], a[2], d) :
        t \in BOOLEAN,
        a \in {<<FALSE, "">>, <<TRUE, " Ann B ">>, <<TRUE, "Bob">>},
        d \in {<<>>, <<"p1">>, <<"p1", " p2">>} }

ErrorStatuses == {400, 404}

\* what requests.get can produce: an exception (timeout, connection failure)
\* or a response with a status code and a body
Raised == [exc |-> TRUE, status_code |-> 0, body |-> EmptyDoc]
Answer(status, body) == [exc |-> FALSE, status_code |-> status, body |-> body]

Responses(docs) ==
    {Raised} \cup {Answer(s, EmptyDoc) : s \in ErrorStatuses}
             \cup {Answer(200, d) : d \in docs}

\* requests.Response.ok, also Response.__bool__
ok(r) == r.status_code < 400

----------------------------------------------------------------------------
(* Config *)

\* a Python value as json.load delivers it: its type and its content
PyInt(n) == [t |-> "int", i |-> n, s |-> "", b |-> FALSE, l |-> <<>>]
PyFloat(whole) == [t |-> "float", i |-> whole, s |-> "", b |-> FALSE, l |-> <<>>]
PyBool(b) == [t |-> "bool", i |-> IF b THEN 1 ELSE 0, s |-> "", b |-> b, l |-> <<>>]
PyStr(s) == [t |-> "str", i |-> 0, s |-> s, b |-> FALSE, l |-> <<>>]
PyList(l) == [t |-> "list", i |-> 0, s |-> "", b |-> FALSE, l |-> l]
PyDict == [t |-> "dict", i |-> 0, s |-> "", b |-> FALSE, l |-> <<>>]
PyNone == [t |-> "NoneType", i |-> 0, s |-> "", b |-> FALSE, l |-> <<>>]

\* isinstance(v, int): bool is a subclass of int
isinstance_int(v) == v.t \in {"int", "bool"}
isinstance_bool(v) == v.t = "bool"
isinstance_str(v) == v.t = "str"
isinstance_list(v) == v.t = "list"
isinstance_dict(v) == v.t = "dict"

NumArticlesLimit == 150
TimeoutLimit == 60

\* Config._validate_config_content: the fault raised, or "ok"
validate_timeout_exclusive(c) ==
    IF \/ ~isinstance_list(c.seed_urls)
       \/ ~\A k \in 1..Len(c.seed_urls.l) :
             /\ isinstance_str(c.seed_urls.l[k])
             /\ startswith(c.seed_urls.l[k].s, "https://otr-online.ru/")
    THEN "IncorrectSeedURLError"
    ELSE IF \/ ~isinstance_int(c.total_articles)
            \/ isinstance_bool(c.total_articles)
            \/ c.total_articles.i < 0
    THEN "IncorrectNumberOfArticlesError"
    ELSE IF c.total_articles.i > NumArticlesLimit
    THEN "NumberOfArticlesOutOfRangeError"
    ELSE IF ~isinstance_dict(c.headers)
    THEN "IncorrectHeadersError"
    ELSE IF ~isinstance_str(c.encoding)
    THEN "IncorrectEncodingError"
    ELSE IF ~isinstance_int(c.timeout) \/ ~(0 < c.timeout.i /\ c.timeout.i < TimeoutLimit)
    THEN "IncorrectTimeoutError"
    ELSE IF ~isinstance_bool(c.should_verify_certificate)
    THEN "IncorrectVerifyError"
    ELSE IF ~isinstance_bool(c.headless_mode)
    THEN "IncorrectVerifyError"
    ELSE "ok"

validate_config_content(c) ==
    IF \/ ~isinstance_list(c.seed_urls)
       \/ ~\A k \in 1..Len(c.seed_urls.l) :
             /\ isinstance_str(c.seed_urls.l[k])
             /\ startswith(c.seed_urls.l[k].s, "https://otr-online.ru/")
    THEN "IncorrectSeedURLError"
    ELSE IF \/ ~isinstance_int(c.total_articles)
            \/ isinstance_bool(c.total_articles)
            \/ c.total_articles.i < 0
    THEN "IncorrectNumberOfArticlesError"
    ELSE IF c.total_articles.i > NumArticlesLimit
    THEN "NumberOfArticlesOutOfRangeError"
    ELSE IF ~isinstance_dict(c.headers)
    THEN "IncorrectHeadersError"
    ELSE IF ~isinstance_str(c.encoding)
    THEN "IncorrectEncodingError"
    ELSE IF ~isinstance_int(c.timeout) \/ ~(0 < c.timeout.i /\ c.timeout.i <= TimeoutLimit)
    THEN "IncorrectTimeoutError"
    ELSE IF ~isinstance_bool(c.should_verify_certificate)
    THEN "IncorrectVerifyError"
    ELSE IF ~isinstance_bool(c.headless_mode)
    THEN "IncorrectVerifyError"
    ELSE "ok"

----------------------------------------------------------------------------
(* Crawler *)

SiteOrigin == "https://otr-online.ru"

ExtractionError == "EXTRACTION ERROR"

\* Crawler._extract_url: the first <a> of the document decides
extract_url(article_bs) ==
    IF article_bs.anchors # <<>> /\ article_bs.anchors[1].has_href
    THEN LET url == article_bs.anchors[1].href
         IN  IF ~startswith(url, "http") THEN SiteOrigin \o url ELSE url
    ELSE ExtractionError

\* find_articles: max_url_attempts
max_url_attempts_off_by_one(n) == n * 2 + 1

max_url_attempts(n) == n * 2

\* find_articles: `if link not in self.urls: self.urls.append(link)`
append_always(collected, new_link) == Append(collected, new_link)

append_if_new(collected, new_link) ==
    IF new_link \notin Range(collected) THEN Append(collected, new_link) ELSE collected

\* find_articles, line 252: the document handed to _extract_url at a given
\* attempt is the whole soup of the seed, whatever was extracted before
soup_after_attempts(seed_soup, attempts) ==
    [seed_soup EXCEPT !.anchors = SubSeq(@, attempts + 1, Len(@))]

soup_at_attempt(seed_soup, attempts) == seed_soup

\* the condition of the while loop
may_attempt ==
    /\ Len(urls) < num_articles
    /\ url_attempts < max_url_attempts(num_articles)

CrawlPcs == {"seed_loop", "query_loop", "while"}

\* lines 238-245: the next seed is requested and, if usable, parsed
FetchSeed ==
    /\ pc = "seed_loop"
    /\ seed_index <= Len(seed_urls)
    /\ requests' = requests + 1
    /\ \E r \in Responses(SeedDocs) :
        IF r.exc
        THEN /\ pc' = "aborted"
             /\ UNCHANGED <<seed_index, query_index, soup, url_attempts, contributed>>
        ELSE IF ~ok(r) \/ r.status_code > 400
        THEN /\ seed_index' = seed_index + 1
             /\ UNCHANGED <<pc, query_index, soup, url_attempts, contributed>>
        ELSE /\ soup' = r.body
             /\ url_attempts' = 0
             /\ contributed' = 0
             /\ query_index' = 1
             /\ pc' = "query_loop"
             /\ UNCHANGED seed_index
    /\ UNCHANGED <<urls, link, total_attempts>>
    /\ UNCHANGED <<seed_urls, num_articles>>
    /\ UNCHANGED driveVars
    /\ UNCHANGED configVars

\* line 238: the seed loop is exhausted, find_articles returns
SeedLoopEnd ==
    /\ pc = "seed_loop"
    /\ seed_index > Len(seed_urls)
    /\ pc' = "article_loop"
    /\ UNCHANGED crawlVars
    /\ UNCHANGED <<seed_urls, num_articles>>
    /\ UNCHANGED driveVars
    /\ UNCHANGED configVars

\* lines 246-249: the liveness request of the inner seed loop
FetchQuery ==
    /\ pc = "query_loop"
    /\ query_index <= Len(seed_urls)
    /\ requests' = requests + 1
    /\ \E r \in Responses(SeedDocs) :
        IF r.exc
        THEN /\ pc' = "aborted"
             /\ UNCHANGED query_index
        ELSE IF ~ok(r)
        THEN /\ query_index' = query_index + 1
             /\ UNCHANGED pc
        ELSE /\ pc' = "while"
             /\ UNCHANGED query_index
    /\ UNCHANGED <<urls, seed_index, soup, url_attempts, link, total_attempts, contributed>>
    /\ UNCHANGED <<seed_urls, num_articles>>
    /\ UNCHANGED driveVars
    /\ UNCHANGED configVars

\* line 246: the inner seed loop is exhausted, the outer loop goes on
QueryLoopEnd ==
    /\ pc = "query_loop"
    /\ query_index > Len(seed_urls)
    /\ seed_index' = seed_index + 1
    /\ pc' = "seed_loop"
    /\ UNCHANGED <<urls, query_index, soup, url_attempts, link, requests,
                   total_attempts, contributed>>
    /\ UNCHANGED <<seed_urls, num_articles>>
    /\ UNCHANGED driveVars
    /\ UNCHANGED configVars

\* lines 250-258: one pass of the while loop
ExtractAttempt ==
    /\ pc = "while"
    /\ may_attempt
    /\ link' = extract_url(soup_at_attempt(soup, url_attempts))
    /\ urls' = IF link' = ExtractionError THEN urls ELSE append_if_new(urls, link')
    /\ url_attempts' = url_attempts + 1
    /\ total_attempts' = total_attempts + 1
    /\ contributed' = contributed + (Len(urls') - Len(urls))
    /\ UNCHANGED <<pc, seed_index, query_index, soup, requests>>
    /\ UNCHANGED <<seed_urls, num_articles>>
    /\ UNCHANGED driveVars
    /\ UNCHANGED configVars

\* lines 250-251 and 259-260: the while loop ends; `break` leaves the inner
\* seed loop only
WhileExit ==
    /\ pc = "while"
    /\ ~may_attempt
    /\ IF Len(urls) >= num_articles
       THEN /\ seed_index' = seed_index + 1
            /\ pc' = "seed_loop"
            /\ UNCHANGED query_index
       ELSE /\ query_index' = query_index + 1
            /\ pc' = "query_loop"
            /\ UNCHANGED seed_index
    /\ UNCHANGED <<urls, soup, url_attempts, link, requests, total_attempts, contributed>>
    /\ UNCHANGED <<seed_urls, num_articles>>
    /\ UNCHANGED driveVars
    /\ UNCHANGED configVars

Crawl ==
    \/ FetchSeed
    \/ SeedLoopEnd
    \/ FetchQuery
    \/ QueryLoopEnd
    \/ ExtractAttempt
    \/ WhileExit

----------------------------------------------------------------------------
(* HTMLParser *)

\* Article(url=full_url, article_id=article_id): nothing extracted yet
Article(full_url, id) ==
    [kind |-> "Article", article_id |-> id, url |-> full_url,
     title |-> "", author |-> <<>>, text |-> ""]

\* isinstance(article_info, Article)
isinstance_Article(article_info) == article_info.kind = "Article"

\* HTMLParser._fill_article_with_text
fill_article_with_text(a, article_soup) ==
    IF article_soup.divs # <<>>
    THEN [a EXCEPT !.text = join(article_soup.divs)]
    ELSE [a EXCEPT !.text = "NOT FOUND"]

\* HTMLParser._fill_article_with_meta_information; title.get_text() raises
\* AttributeError when find("title") is None
meta_information_raises(article_soup) == ~article_soup.has_title

fill_article_with_meta_information(a, article_soup) ==
    [a EXCEPT !.title = article_soup.title,
              !.author = IF article_soup.has_author
                         THEN <<strip(article_soup.author)>> ELSE <<"NOT FOUND">>]

\* HTMLParser.parse, given the answer to its request: whether it raises, and
\* the state of self.article when it returns or raises
parse_raises(r) == r.exc \/ (ok(r) /\ meta_information_raises(r.body))

parse_fills_always(a, r) ==
    IF r.exc THEN a
    ELSE IF meta_information_raises(r.body) THEN fill_article_with_text(a, r.body)
    ELSE fill_article_with_meta_information(fill_article_with_text(a, r.body), r.body)

parse(a, r) ==
    IF r.exc THEN a
    ELSE IF ok(r)
    THEN IF meta_information_raises(r.body) THEN fill_article_with_text(a, r.body)
         ELSE fill_article_with_meta_information(fill_article_with_text(a, r.body), r.body)
    ELSE a

----------------------------------------------------------------------------
(* main *)

\* article_id=index + 1
article_id_zero_based(i) == i

article_id(i) == i + 1

Event(op, a, r) ==
    [op |-> op, id |-> a.article_id, url |-> a.url, fetched |-> ~r.exc /\ ok(r)]

\* the calls of one persisted record, in the order main makes them
persist_order == <<"to_raw", "to_meta">>

\* lines 370-374: the next collected URL is parsed
Parse ==
    /\ pc = "article_loop"
    /\ index < Len(urls)
    /\ requests' = requests + 1
    /\ \E r \in Responses(ArticleDocs) :
        LET parser_article == Article(urls[index + 1], article_id(index))
        IN  /\ response' = r
            /\ article' = parse(parser_article, r)
            /\ log' = Append(log, Event("parse", parser_article, r))
            /\ IF parse_raises(r)
               THEN pc' = "aborted" /\ UNCHANGED index
               ELSE IF isinstance_Article(article')
               THEN pc' = "persist_1" /\ UNCHANGED index
               ELSE pc' = "article_loop" /\ index' = index + 1
    /\ UNCHANGED <<urls, seed_index, query_index, soup, url_attempts, link,
                   total_attempts, contributed>>
    /\ UNCHANGED <<seed_urls, num_articles>>
    /\ UNCHANGED configVars

\* line 375
Persist1 ==
    /\ pc = "persist_1"
    /\ log' = Append(log, Event(persist_order[1], article, response))
    /\ pc' = "persist_2"
    /\ UNCHANGED <<index, article, response>>
    /\ UNCHANGED crawlVars
    /\ UNCHANGED <<seed_urls, num_articles>>
    /\ UNCHANGED configVars

\* line 376, and the loop moves on
Persist2 ==
    /\ pc = "persist_2"
    /\ log' = Append(log, Event(persist_order[2], article, response))
    /\ index' = index + 1
    /\ pc' = "article_loop"
    /\ UNCHANGED <<article, response>>
    /\ UNCHANGED crawlVars
    /\ UNCHANGED <<seed_urls, num_articles>>
    /\ UNCHANGED configVars

\* line 370: every collected URL was handled, main returns
ArticleLoopEnd ==
    /\ pc = "article_loop"
    /\ index >= Len(urls)
    /\ pc' = "done"
    /\ UNCHANGED driveVars
    /\ UNCHANGED crawlVars
    /\ UNCHANGED <<seed_urls, num_articles>>
    /\ UNCHANGED configVars

Drive ==
    \/ Parse
    \/ Persist1
    \/ Persist2
    \/ ArticleLoopEnd

----------------------------------------------------------------------------
(* The run of main() after a configuration was accepted *)

SeedUrl(k) == SiteOrigin \o "/news/" \o ToString(k)

NoConfig ==
    [seed_urls |-> "", total_articles |-> "", headers |-> "", encoding |-> "",
     timeout |-> "", should_verify_certificate |-> "", headless_mode |-> ""]

Init ==
    /\ \E n \in 0..MaxSeeds : seed_urls = [k \in 1..n |-> SeedUrl(k)]
    /\ num_articles \in 0..MaxArticles
    /\ pc = "seed_loop"
    /\ urls = <<>>
    /\ seed_index = 1
    /\ query_index = 1
    /\ soup = EmptyDoc
    /\ url_attempts = 0
    /\ link = ""
    /\ requests = 0
    /\ total_attempts = 0
    /\ contributed = 0
    /\ index = 0
    /\ article = Article("", 0)
    /\ response = Raised
    /\ log = <<>>
    /\ raw = NoConfig
    /\ outcome = "ok"

Next ==
    \/ Crawl
    \/ Drive

Spec == Init /\ [][Next]_vars

\* the interpreter runs the next statement: no step is postponed forever
FairSpec == Init /\ [][Next]_vars /\ WF_vars(Next)

----------------------------------------------------------------------------
(* Config(path_to_config): the values a configuration file can hold *)

GoodSeed == PyStr("https://otr-online.ru/news/")

SeedUrlsValues ==
    { PyList(<<>>), PyList(<<GoodSeed>>), PyList(<<GoodSeed, GoodSeed>>),
      PyList(<<GoodSeed, PyStr("https://otr-online.ru")>>),
      PyList(<<PyStr("http://otr-online.ru/news/"), GoodSeed>>),
      PyList(<<PyInt(1)>>), GoodSeed, PyNone }

TotalArticlesValues ==
    {PyInt(n) : n \in {-1, 0, 1, NumArticlesLimit - 1, NumArticlesLimit, NumArticlesLimit + 1}}
        \cup {PyFloat(1), PyBool(TRUE), PyStr("5"), PyNone}

HeadersValues == {PyDict, PyList(<<>>), PyStr("User-Agent")}

EncodingValues == {PyStr("utf-8"), PyInt(8), PyNone}

TimeoutValues ==
    {PyInt(n) : n \in {-1, 0, 1, TimeoutLimit - 1, TimeoutLimit, TimeoutLimit + 1}}
        \cup {PyFloat(5), PyBool(TRUE), PyStr("5")}

VerifyValues == {PyBool(TRUE), PyBool(FALSE), PyInt(1), PyStr("true")}

HeadlessValues == {PyBool(TRUE), PyBool(FALSE), PyInt(0)}

InitConfig ==
    /\ raw \in [seed_urls : SeedUrlsValues, total_articles : TotalArticlesValues,
                headers : HeadersValues, encoding : EncodingValues,
                timeout : TimeoutValues, should_verify_certificate : VerifyValues,
                headless_mode : HeadlessValues]
    /\ outcome = "pending"
    /\ pc = "config"
    /\ seed_urls = <<>>
    /\ num_articles = 0
    /\ urls = <<>>
    /\ seed_index = 1
    /\ query_index = 1
    /\ soup = EmptyDoc
    /\ url_attempts = 0
    /\ link = ""
    /\ requests = 0
    /\ total_attempts = 0
    /\ contributed = 0
    /\ index = 0
    /\ article = Article("", 0)
    /\ response = Raised
    /\ log = <<>>

\* Config.__init__ (lines 61-70): the fields are stored, then validated; on
\* success the accessors deliver the stored values
Construct ==
    /\ pc = "config"
    /\ outcome' = validate_config_content(raw)
    /\ IF outcome' = "ok"
       THEN /\ seed_urls' = [k \in 1..Len(raw.seed_urls.l) |-> raw.seed_urls.l[k].s]
            /\ num_articles' = raw.total_articles.i
            /\ pc' = "configured"
       ELSE /\ pc' = "aborted"
            /\ UNCHANGED <<seed_urls, num_articles>>
    /\ UNCHANGED raw
    /\ UNCHANGED crawlVars
    /\ UNCHANGED driveVars

NextConfig == Construct

SpecConfig == InitConfig /\ [][NextConfig]_vars

----------------------------------------------------------------------------
(* Properties of Crawler.find_articles *)

NoDuplicates(seq) == \A j, k \in 1..Len(seq) : j # k => seq[j] # seq[k]

Target == num_articles

\* C1: at every moment the collected list is no longer than the target count
\* and holds no URL twice, and every step leaves it as it was or appends to
\* its end
C1_CollectedBoundedUniqueAppendOnly ==
    /\ [](Len(urls) <= Target /\ NoDuplicates(urls))
    /\ [][IsPrefix(urls, urls')]_vars

\* a link already collected was extracted again while two URLs are held
C1_Witness ==
    /\ pc = "while"
    /\ Len(urls) = 2
    /\ total_attempts >= 3
    /\ link \in Range(urls)

C3_NoRequestAfterTarget ==
    [][(pc \in CrawlPcs /\ urls # <<>> /\ Len(urls) >= Target)
          => requests' = requests]_vars

\* C10: a parsed seed page adds at most one URL however many attempts are
\* spent on it, so the collected list never exceeds min(target, number of
\* seeds), and no more records than that are persisted
C10_OneUrlPerSeedPage ==
    /\ contributed <= 1
    /\ Len(urls) <= Min(Target, Len(seed_urls))
    /\ Cardinality({k \in 1..Len(log) : log[k].op = "to_raw"})
           <= Min(Target, Len(seed_urls))

\* a page with two links had every attempt of its budget spent and gave one URL
C10_Witness ==
    /\ pc = "while"
    /\ Len(soup.anchors) = 2
    /\ soup.anchors[2].has_href
    /\ url_attempts = 2 * Target
    /\ url_attempts >= 4
    /\ contributed = 1
    /\ Len(urls) < Target

----------------------------------------------------------------------------
(* Properties of the driver and of HTMLParser.parse *)

Persisted == {k \in 1..Len(log) : log[k].op \in {"to_raw", "to_meta"}}

\* C4 as stated: nothing is persisted for a URL whose article request was
\* not successful
C4_NothingPersistedForFailedFetch == \A k \in Persisted : log[k].fetched

\* C5 as stated: no fault of one request or one document ends the batch, so
\* when the run is over every seed was visited and every collected URL handled
C5_NoFaultAbortsBatch ==
    pc \in {"done", "aborted"} =>
        (seed_index > Len(seed_urls) /\ index = Len(urls))

ParsesUpTo(k) == Cardinality({j \in 1..k : log[j].op = "parse"})

\* C6: the extractor is called for the collected URLs in order, the k-th call
\* with id k and the k-th URL; to_raw directly follows the extraction of the
\* same record and to_meta directly follows its to_raw, each once, and the
\* next extraction starts only after them
C6_SequentialPersistence ==
    /\ \A k \in 1..Len(log) :
          LET e == log[k]
          IN  /\ e.op = "parse" =>
                    /\ e.id = ParsesUpTo(k)
                    /\ e.id \in 1..Len(urls)
                    /\ e.url = urls[e.id]
                    /\ k > 1 => log[k - 1].op \in {"parse", "to_meta"}
              /\ e.op = "to_raw" =>
                    /\ k > 1
                    /\ log[k - 1].op = "parse"
                    /\ log[k - 1].id = e.id
                    /\ log[k - 1].url = e.url
              /\ e.op = "to_meta" =>
                    /\ k > 1
                    /\ log[k - 1].op = "to_raw"
                    /\ log[k - 1].id = e.id
                    /\ log[k - 1].url = e.url
    /\ pc = "done" =>
          /\ ParsesUpTo(Len(log)) = Len(urls)
          /\ log # <<>> => log[Len(log)].op # "to_raw"

\* two records were extracted and persisted, and main returned
C6_Witness ==
    /\ pc = "done"
    /\ Len(urls) = 2
    /\ Len(log) = 6
    /\ log[5].op = "to_raw"
    /\ log[6].op = "to_meta"
    /\ log[6].id = 2

Spaces(s) == \A k \in 1..Len(s) : SubSeq(s, k, k) = " "

\* t is s without the spaces around it
IsTrimOf(t, s) ==
    /\ t = "" \/ (SubSeq(t, 1, 1) # " " /\ SubSeq(t, Len(t), Len(t)) # " ")
    /\ \E a, b \in 0..Len(s) :
          /\ a + b <= Len(s)
          /\ Spaces(SubSeq(s, 1, a))
          /\ Spaces(SubSeq(s, Len(s) - b + 1, Len(s)))
          /\ t = SubSeq(s, a + 1, Len(s) - b)

\* the parts in order with a newline between neighbours
JoinedByNewline(parts) ==
    LET upto[k \in 0..Len(parts)] ==
            IF k = 0 THEN ""
            ELSE IF k = 1 THEN parts[1]
            ELSE upto[k - 1] \o "\n" \o parts[k]
    IN  upto[Len(parts)]

\* C7: a call of parse that returns has issued exactly one request; after a
\* non-successful answer title, author and text are as constructed; after a
\* successful answer with a title, author is <<"NOT FOUND">> without an author
\* element and else the one-element list of its trimmed text, and text is
\* "NOT FOUND" without a block container and else the containers' texts
\* joined by newline
C7_ParseMatchesReference ==
    [][(pc = "article_loop" /\ pc' = "persist_1") =>
          LET r == response'
              d == r.body
              a == article'
          IN  /\ requests' = requests + 1
              /\ a.url = urls[index + 1]
              /\ ~ok(r) =>
                    LET fresh == Article(urls[index + 1], index + 1)
                    IN  /\ a.title = fresh.title
                        /\ a.author = fresh.author
                        /\ a.text = fresh.text
              /\ (ok(r) /\ d.has_title) =>
                    /\ a.title = d.title
                    /\ ~d.has_author => a.author = <<"NOT FOUND">>
                    /\ d.has_author =>
                          (Len(a.author) = 1 /\ IsTrimOf(a.author[1], d.author))
                    /\ d.divs = <<>> => a.text = "NOT FOUND"
                    /\ d.divs # <<>> => a.text = JoinedByNewline(d.divs)]_vars

\* parse returned the record of a document with a padded author and two blocks
C7_Witness ==
    /\ pc = "persist_1"
    /\ ok(response)
    /\ response.body.author = " Ann B "
    /\ article.author = <<"Ann B">>
    /\ article.text = "p1\n p2"

\* parse returned after a non-successful answer
C7_WitnessFailed ==
    /\ pc = "persist_1"
    /\ ~ok(response)
    /\ article = Article(urls[index + 1], index + 1)

\* C8 as stated: after an extraction from the current soup, a link value
\* without a scheme prefix has become a URL under https://otr-online.ru/, a
\* link with one is unchanged, and without a first link or its href the
\* result is the sentinel, which is not among the collected URLs
C8_ExtractUrl ==
    (pc = "while" /\ url_attempts > 0) =>
        IF soup.anchors = <<>> \/ ~soup.anchors[1].has_href
        THEN link = ExtractionError /\ ExtractionError \notin Range(urls)
        ELSE LET value == soup.anchors[1].href
             IN  IF startswith(value, "http://") \/ startswith(value, "https://")
                 THEN link = value
                 ELSE startswith(link, "https://otr-online.ru/")

----------------------------------------------------------------------------
(* Properties of Config *)

ValidSeedUrls(v) ==
    /\ v.t = "list"
    /\ \A k \in 1..Len(v.l) :
          v.l[k].t = "str" /\ startswith(v.l[k].s, "https://otr-online.ru/")
ValidTotalArticles(v) == v.t = "int" /\ v.i \in 0..150
ValidTimeout(v) == v.t = "int" /\ v.i \in 1..60

\* every field but those named is valid
ValidExcept(fields) ==
    /\ "seed_urls" \in fields \/ ValidSeedUrls(raw.seed_urls)
    /\ "total_articles" \in fields \/ ValidTotalArticles(raw.total_articles)
    /\ "headers" \in fields \/ raw.headers.t = "dict"
    /\ "encoding" \in fields \/ raw.encoding.t = "str"
    /\ "timeout" \in fields \/ ValidTimeout(raw.timeout)
    /\ "should_verify_certificate" \in fields
          \/ raw.should_verify_certificate.t = "bool"
    /\ "headless_mode" \in fields \/ raw.headless_mode.t = "bool"

====
